---------------------------- MODULE Spec2Model ----------------------------
(***************************************************************************)
(* State-machine model of the 2D batched renderer of the Poseidon engine   *)
(* (graphics/renderer_2d.rs: Rect, RectVertex, RectBatch, Renderer2D),     *)
(* together with the part of the graphics device it drives: the program    *)
(* in use, the texture bound to each texture unit, and the commands the    *)
(* last call sent to the device (texture.rs, shader.rs, array_buffer.rs,   *)
(* renderer.rs).                                                           *)
(*                                                                         *)
(* Numbers.  The f32 values of the program are modelled by integers; a    *)
(* pivot component is kept in halves (0, 1, 2 stand for 0.0, 0.5, 1.0),    *)
(* so size * pivot is (size * pivot) \div 2, which is exact for the even   *)
(* sizes used here, as it is in f32.  Every f32 operation rounds its exact *)
(* result to the nearest value with a 24-bit significand, ties to even.    *)
(*                                                                         *)
(* Capacities.  MAX_RECTS_IN_BATCH and MAX_TEXTURE_SLOTS are 512 and 32 in *)
(* the source (renderer_2d.rs:61,64).  The model keeps their names and     *)
(* their order (more rectangles than texture slots) and scales them down   *)
(* so that both capacities are reached.                                    *)
(***************************************************************************)
EXTENDS Integers, Sequences, FiniteSets, TLC

\* ------------------------------------------------------------------ bounds

\* renderer_2d.rs:61 has 512; scaled down.
MAX_RECTS_IN_BATCH == 3

\* renderer_2d.rs:64 has 32 (also the size of u_textures[] in the fragment
\* shader, renderer_2d.rs:227); scaled down, kept below MAX_RECTS_IN_BATCH.
MAX_TEXTURE_SLOTS == 2

\* Number of begin_batch calls in a run (adds made before the first one fill
\* a window of their own, the one that starts at construction).
MaxFrames == 1

\* Largest width and height given to Texture::with_data.
MaxDim == 2

\* Longest attribute list given to BufferLayout::new.
MaxAttributes == 3

\* Number of layers of an Application, and number of events one pass of the
\* event loop polls.
MaxLayers == 2

MaxEvents == 2

\* --------------------------------------------------------------- constants

MAX_VERTS_IN_BATCH == MAX_RECTS_IN_BATCH * 4

MAX_INDICES_IN_BATCH == MAX_RECTS_IN_BATCH * 6

\* size_of::<RectVertex>(): Vec3f + Vec2f + Vec4f + i32, 4 bytes a component.
SizeOfRectVertex == 4 * 3 + 4 * 2 + 4 * 4 + 4

\* size_of::<u32>(), the size of an index.
SizeOfIndex == 4

\* Textures are named, not numbered: no texture (the name 0 of the device),
\* Renderer2D.default_texture (1x1 opaque white), and the Texture objects the
\* caller created with Texture::new (application.rs:124 creates `texture`).
NoTexture == "none"

DefaultTexture == "default_texture"

UserTextures == {"texture", "texture2"}

\* The programs: Renderer2D.default_shader and the application's mesh shader.
DefaultShader == "default_shader"

MeshShader == "shader"

\* Texture units a bind can name: add_textured_rect binds unit
\* next_texture_slot, which is at most MAX_RECTS_IN_BATCH when it binds.
Units == 0 .. MAX_RECTS_IN_BATCH

\* ------------------------------------------------------------------- Rect

Rect(position, size, pivot, uv_min, uv_max) ==
    [position |-> position, size |-> size, pivot |-> pivot,
     uv_min |-> uv_min, uv_max |-> uv_max]

\* The distance between neighbouring f32 values at magnitude a >= 0: 1 below
\* 2^24 (the integers there are all f32 values), doubling with each power of
\* two above.
RECURSIVE Ulp(_)
Ulp(a) == IF a < 2^24 THEN 1 ELSE 2 * Ulp(a \div 2)

\* a >= 0 rounded to the nearest multiple of u, ties to the even multiple.
RoundToEven(a, u) ==
    LET q == a \div u
        r == a % u
    IN  IF 2 * r < u \/ (2 * r = u /\ q % 2 = 0) THEN q * u ELSE (q + 1) * u

\* The f32 result of an operation whose exact result is the integer n.
F32(n) == IF n < 0 THEN 0 - RoundToEven(0 - n, Ulp(0 - n))
                   ELSE RoundToEven(n, Ulp(n))

\* The f32 product size * pivot with the pivot in halves.
TimesPivot(s, p) == F32((s * p) \div 2)

left(rect) == F32(rect.position[1] - TimesPivot(rect.size[1], rect.pivot[1]))

right(rect) ==
    F32(rect.position[1] + TimesPivot(rect.size[1], 2 - rect.pivot[1]))

bottom(rect) == F32(rect.position[2] - TimesPivot(rect.size[2], rect.pivot[2]))

top(rect) ==
    F32(rect.position[2] + TimesPivot(rect.size[2], 2 - rect.pivot[2]))

\* (left, right, bottom, top): not the order of the source.
bounds_bottom_before_top(rect) ==
    <<left(rect), right(rect), bottom(rect), top(rect)>>

\* (left, right, top, bottom): bounds.0 .. bounds.3 are bounds(r)[1] .. [4].
bounds(rect) == <<left(rect), right(rect), top(rect), bottom(rect)>>

RectVertex(position, uv, color, slot) ==
    [position |-> position, uv |-> uv, color |-> color, slot |-> slot]

RectVertexDefault == RectVertex(<<0, 0, 0>>, <<0, 0>>, <<0, 0, 0, 0>>, 0)

\* The four records add_rect / add_textured_rect / draw_textured_rect build,
\* in the order they are written (offsets 0..3); slot3 is the slot expression
\* of the third record, which add_textured_rect reads from the field again.
\* The records with the last two in the other order: not the source.
Corners_top_left_third(rect, color, slot, slot3) ==
    LET b == bounds(rect) IN
    [k \in 0 .. 3 |->
        CASE k = 0 -> RectVertex(<<b[1], b[4], rect.position[3]>>,
                                 rect.uv_min, color, slot)
          [] k = 1 -> RectVertex(<<b[2], b[4], rect.position[3]>>,
                                 <<rect.uv_max[1], rect.uv_min[2]>>, color, slot)
          [] k = 2 -> RectVertex(<<b[1], b[3], rect.position[3]>>,
                                 <<rect.uv_min[1], rect.uv_max[2]>>, color, slot3)
          [] k = 3 -> RectVertex(<<b[2], b[3], rect.position[3]>>,
                                 rect.uv_max, color, slot)]

Corners(rect, color, slot, slot3) ==
    LET b == bounds(rect) IN
    [k \in 0 .. 3 |->
        CASE k = 0 -> RectVertex(<<b[1], b[4], rect.position[3]>>,
                                 rect.uv_min, color, slot)
          [] k = 1 -> RectVertex(<<b[2], b[4], rect.position[3]>>,
                                 <<rect.uv_max[1], rect.uv_min[2]>>, color, slot)
          [] k = 2 -> RectVertex(<<b[2], b[3], rect.position[3]>>,
                                 rect.uv_max, color, slot3)
          [] k = 3 -> RectVertex(<<b[1], b[3], rect.position[3]>>,
                                 <<rect.uv_min[1], rect.uv_max[2]>>, color, slot)]

\* ----------------------------------------------------------------- inputs

\* The rectangles and colours Application::execute passes
\* (application.rs:169-170 to batch_rect, 174-176 to batch_textured_rect).
Rect200 == Rect(<<0, 0, 0>>, <<200, 100>>, <<0, 0>>, <<0, 0>>, <<1, 1>>)

Rect100 == Rect(<<0, 0, 0>>, <<100, 100>>, <<0, 0>>, <<0, 0>>, <<1, 1>>)

Cyan == <<0, 1, 1, 1>>

White == <<1, 1, 1, 1>>

\* <<rect, color>> arguments of batch_rect, of batch_textured_rect and
\* draw_textured_rect, and of draw_rect.
RectInputs == { <<Rect200, Cyan>>, <<Rect100, White>> }

TexturedInputs == { <<Rect100, White>> }

ImmediateInputs == { <<Rect200, Cyan>> }

\* Rectangles for the calls examined alone: every pivot in halves, positions
\* at the origin, off the origin with a depth, and at 2^24 where neighbouring
\* f32 values are 2 apart, and two UV rectangles.
GeomPositions == { <<0, 0, 0>>, <<0 - 100, 50, 1>>, <<2^24, 2^24, 0>> }

GeomSizes == { <<200, 100>>, <<2, 2>> }

GeomPivots == (0 .. 2) \X (0 .. 2)

GeomUVs == { <<<<0, 0>>, <<1, 1>>>>, <<<<1, 2>>, <<3, 4>>>> }

GeomRects ==
    { Rect(p, s, v, uv[1], uv[2]) :
        p \in GeomPositions, s \in GeomSizes, v \in GeomPivots, uv \in GeomUVs }

\* ------------------------------------------------------------------ state

VARIABLES
    vertices,           \* RectBatch.vertices, indexed 0 .. MAX_VERTS_IN_BATCH-1
    next_rect,          \* RectBatch.next_rect
    next_texture_slot,  \* RectBatch.next_texture_slot
    texture_units,      \* device: texture bound to each texture unit
    program,            \* device: program in use
    call,               \* the last call made: its name and arguments
    log,                \* device commands of the last call, in order
    panicked,           \* the last call panicked; the run is over
    window,             \* history: add calls completed since the last reset
    unit0_rebound,      \* history: unit 0 was bound since the last begin_batch
    frames,             \* history: number of begin_batch calls so far
    index_buffer,       \* device: the data of RectBatch.index_buffer
    input,              \* the arguments of a single call that is examined alone
    output,             \* what that call returned, or how it ended
    layers,             \* Application.layers
    pending,            \* events poll_iter has yet to yield in this iteration
    pc,                 \* position of Application::execute in its main loop
    dispatch,           \* history: what was done with the last event yielded
    updates,            \* history: on_update calls of this iteration, in order
    frame,              \* history: device-facing calls of this iteration
    INITIALIZED,        \* the static INITIALIZED of renderer.rs
    device,             \* device: blend state, viewport and clear color
    configurations      \* history: times the blend state was configured

\* The state of the renderer and of the device.
rvars == <<vertices, next_rect, next_texture_slot, texture_units, program,
           call, log, panicked, window, unit0_rebound, frames, index_buffer>>

\* The state behind the Renderer facade.
facade == <<INITIALIZED, device, configurations>>

\* The state of Application::execute.
app == <<layers, pending, pc, dispatch, updates, frame>>

\* The state outside the renderer, which no renderer call touches.
others == <<input, output, app, facade>>

vars == <<rvars, others>>

batch == <<vertices, next_rect, next_texture_slot>>

Call(op, rect, texture, color) ==
    [op |-> op, rect |-> rect, texture |-> texture, color |-> color]

NoArg == "-"

\* `output` before the call under examination has returned.
NoOutput == <<>>

\* An entry of window: an add_rect, or an add_textured_rect and its texture,
\* with the rectangle and the color it was given.
Added(textured, texture, rect, color) ==
    [textured |-> textured, texture |-> texture, rect |-> rect, color |-> color]

\* -------------------------------------------------------- device commands

UseProgram(p) == [cmd |-> "UseProgram", program |-> p]

BindTextureUnit(unit, texture) ==
    [cmd |-> "BindTextureUnit", unit |-> unit, texture |-> texture]

\* gl::BufferData(target, size, data, ..) of `size` bytes read from the start
\* of `data`: the records are those whose bytes lie in the first `size` bytes.
BufferData(buffer, size, data) ==
    [cmd |-> "BufferData", buffer |-> buffer, size |-> size,
     data |-> [k \in 0 .. (size \div SizeOfRectVertex) - 1 |-> data[k]]]

\* gl::DrawElements(TRIANGLES, count, ..) on a vertex array, with the program
\* and the texture bindings in force when it is issued.
DrawElements(vertex_array, count, prog, units) ==
    [cmd |-> "DrawElements", vertex_array |-> vertex_array, count |-> count,
     program |-> prog, units |-> units]

\* gl::BufferData(ELEMENT_ARRAY_BUFFER, size, data, ..): the indices whose
\* bytes lie in the first `size` bytes of `data`.
IndexBufferData(buffer, size, data) ==
    [cmd |-> "BufferData", buffer |-> buffer, size |-> size,
     data |-> [k \in 0 .. (size \div SizeOfIndex) - 1 |-> data[k]]]

\* Shader::bind: the commands it issues.
ShaderBind(p) == <<UseProgram(p)>>

\* Texture::bind_to_slot: the bindings after it.
bind_to_slot(units, texture, slot) == [units EXCEPT ![slot] = texture]

\* Texture::unbind_from_slot: the bindings after it.
unbind_from_slot(units, slot) == [units EXCEPT ![0] = NoTexture]

\* ArrayBuffer::set_data: the commands it issues.
set_data(buffer, data, size) == <<BufferData(buffer, size, data)>>

\* IndexBuffer::set_data(data, size), as RectBatch::new and
\* draw_textured_rect call it: the commands it issues.
index_set_data(buffer, data, size) == <<IndexBufferData(buffer, size, data)>>

\* Renderer::draw_elements: the commands it issues.
draw_elements(vertex_array, count, prog, units) ==
    <<DrawElements(vertex_array, count, prog, units)>>

\* ------------------------------------------------------------------- Init

\* A loop that gives every rectangle the indices of the first one.
RECURSIVE IndicesLoop_no_offset(_, _)
IndicesLoop_no_offset(i, arr) ==
    IF i >= MAX_RECTS_IN_BATCH
    THEN arr
    ELSE LET index == i * 6
         IN  IndicesLoop_no_offset(i + 1,
                 [arr EXCEPT ![index + 0] = 0,
                             ![index + 1] = 1,
                             ![index + 2] = 2,
                             ![index + 3] = 0,
                             ![index + 4] = 2,
                             ![index + 5] = 3])

\* A loop of RectBatch::new that writes the six indices of rectangles i,
\* i + 1, ... into the array arr.
RECURSIVE IndicesLoop(_, _)
IndicesLoop(i, arr) ==
    IF i >= MAX_RECTS_IN_BATCH
    THEN arr
    ELSE LET index == i * 6
             vertex == i * 4
         IN  IndicesLoop(i + 1,
                 [arr EXCEPT ![index + 0] = vertex + 0,
                             ![index + 1] = vertex + 1,
                             ![index + 2] = vertex + 2,
                             ![index + 3] = vertex + 0,
                             ![index + 4] = vertex + 2,
                             ![index + 5] = vertex + 3])

\* The local array `indices` of RectBatch::new after its loop.
Indices == IndicesLoop(0, [k \in 0 .. MAX_INDICES_IN_BATCH - 1 |-> 0])

\* The constant INDICES of draw_textured_rect.
INDICES == [k \in 0 .. 5 |-> <<0, 1, 2, 0, 2, 3>>[k + 1]]

\* The state after Renderer2D::new and the caller's Texture::new calls: the
\* default shader is in use (renderer_2d.rs:238), RectBatch::new gave default
\* records and counters 0 and 1.  Texture::with_data and Texture::new leave
\* the texture they create bound to the active unit, which is unit 0
\* throughout (texture.rs:36,66), so unit 0 holds the texture created last:
\* the default texture, or one of the caller's (as in application.rs:121-124).
RendererInit ==
    /\ vertices = [k \in 0 .. MAX_VERTS_IN_BATCH - 1 |-> RectVertexDefault]
    /\ next_rect = 0
    /\ next_texture_slot = 1
    /\ \E last \in {DefaultTexture} \cup UserTextures :
          texture_units = [u \in Units |-> IF u = 0 THEN last ELSE NoTexture]
    /\ program = DefaultShader
    /\ call = Call("new", NoArg, NoArg, NoArg)
    /\ log = <<>>
    /\ panicked = FALSE
    /\ window = <<>>
    /\ unit0_rebound = FALSE
    /\ frames = 0
    /\ index_buffer =
          index_set_data("rect_batch.index_buffer", Indices,
                         MAX_INDICES_IN_BATCH)[1].data

\* No event has been yielded yet.
NoDispatch == [event |-> "none", offered |-> <<>>, default |-> 0]

\* Application::execute is not running.
AppIdle ==
    /\ layers = <<>>
    /\ pending = <<>>
    /\ pc = "idle"
    /\ dispatch = NoDispatch
    /\ updates = <<>>
    /\ frame = <<>>

\* No single call is under examination.
CallIdle ==
    /\ input = NoArg
    /\ output = NoOutput

\* The device state Renderer sets, as the context is created: blending off
\* with the blend function (ONE, ZERO), the viewport of the window, a
\* transparent black clear color.
DeviceDefault ==
    [blend |-> FALSE, blend_func |-> <<"ONE", "ZERO">>,
     viewport |-> <<0, 0, 800, 600>>, clear_color |-> <<0, 0, 0, 0>>]

\* The device state Renderer::init configures.
Blended(d) ==
    [d EXCEPT !.blend = TRUE,
              !.blend_func = <<"SRC_ALPHA", "ONE_MINUS_SRC_ALPHA">>]

\* Application::new has called Renderer::init and set_clear_color.
FacadeReady ==
    /\ INITIALIZED = TRUE
    /\ device = Blended(DeviceDefault)
    /\ configurations = 1

OthersIdle == CallIdle /\ AppIdle /\ FacadeReady

Init == RendererInit /\ OthersIdle

\* ---------------------------------------------------------------- RectBatch

\* A reset that rewinds the rectangle counter only.
reset_keeps_slot ==
    /\ next_rect' = 0
    /\ next_texture_slot' = next_texture_slot
    /\ window' = <<>>

\* RectBatch::reset
reset ==
    /\ next_rect' = 0
    /\ next_texture_slot' = 1
    /\ window' = <<>>

\* A draw that uploads and draws one rectangle when the batch is empty.
draw_at_least_one(p) ==
    LET n == IF next_rect = 0 THEN 1 ELSE next_rect
    IN  set_data("rect_batch.vertex_buffer", vertices, SizeOfRectVertex * 4 * n)
        \o draw_elements("rect_batch.vertex_array", n * 6, p, texture_units)

\* A draw that uploads the whole staging array, not the live prefix.
draw_whole(p) ==
    set_data("rect_batch.vertex_buffer", vertices,
             SizeOfRectVertex * MAX_VERTS_IN_BATCH)
    \o draw_elements("rect_batch.vertex_array", next_rect * 6, p, texture_units)

\* RectBatch::draw: the commands it issues, p being the program in use.
draw(p) ==
    set_data("rect_batch.vertex_buffer", vertices,
             SizeOfRectVertex * 4 * next_rect)
    \o draw_elements("rect_batch.vertex_array", next_rect * 6, p, texture_units)

\* A bounds test that is off by one.
InBoundsOffByOne(i) == i <= MAX_VERTS_IN_BATCH

\* The index expression self.vertices[i] is in bounds; Rust panics otherwise.
InBounds(i) == i < MAX_VERTS_IN_BATCH

\* A write of four records that clears the records after them.
WriteCorners_clearing_rest(i, c) ==
    [k \in DOMAIN vertices |->
        IF k \in i .. i + 3 THEN c[k - i]
        ELSE IF k > i + 3 THEN RectVertexDefault ELSE vertices[k]]

\* self.vertices[i + 0 .. i + 3] = c[0 .. 3]
WriteCorners(i, c) ==
    [k \in DOMAIN vertices |-> IF k \in i .. i + 3 THEN c[k - i] ELSE vertices[k]]

\* An add_rect that wraps around to the first rectangle when the array is full.
add_rect_wrapping(rect, color) ==
    LET i == (next_rect % MAX_RECTS_IN_BATCH) * 4
        c == Corners(rect, color, 0, 0)
    IN  /\ vertices' = WriteCorners(i, c)
        /\ next_rect' = (next_rect % MAX_RECTS_IN_BATCH) + 1
        /\ window' = Append(window, Added(FALSE, NoTexture, rect, color))
        /\ log' = <<>>
        /\ UNCHANGED <<next_texture_slot, texture_units, panicked>>

\* An add_rect that leaves the third record of its rectangle as it was.
add_rect_three_corners(rect, color) ==
    LET i == next_rect * 4
        c == Corners(rect, color, 0, 0)
    IN  IF ~InBounds(i + 0)
        THEN /\ panicked' = TRUE
             /\ log' = <<>>
             /\ UNCHANGED <<batch, window, texture_units>>
        ELSE /\ vertices' = [WriteCorners(i, c) EXCEPT ![i + 2] = vertices[i + 2]]
             /\ next_rect' = next_rect + 1
             /\ window' = Append(window, Added(FALSE, NoTexture, rect, color))
             /\ log' = <<>>
             /\ UNCHANGED <<next_texture_slot, texture_units, panicked>>

\* RectBatch::add_rect
add_rect(rect, color) ==
    LET i == next_rect * 4
        c == Corners(rect, color, 0, 0)
    IN  IF ~InBounds(i + 0)
        THEN /\ panicked' = TRUE
             /\ log' = <<>>
             /\ UNCHANGED <<batch, window, texture_units>>
        ELSE /\ vertices' = WriteCorners(i, c)
             /\ next_rect' = next_rect + 1
             /\ window' = Append(window, Added(FALSE, NoTexture, rect, color))
             /\ log' = <<>>
             /\ UNCHANGED <<next_texture_slot, texture_units, panicked>>

\* An add_textured_rect that takes the slot from the rectangle count.
add_textured_rect_slot_of_rect(rect, texture, tint) ==
    LET i == next_rect * 4
        slot == next_rect + 1
        c == Corners(rect, tint, slot, slot)
    IN  IF ~InBounds(i + 0)
        THEN /\ panicked' = TRUE
             /\ log' = <<>>
             /\ UNCHANGED <<batch, window, texture_units>>
        ELSE /\ vertices' = WriteCorners(i, c)
             /\ next_rect' = next_rect + 1
             /\ texture_units' = bind_to_slot(texture_units, texture, slot)
             /\ log' = <<BindTextureUnit(slot, texture)>>
             /\ next_texture_slot' = next_texture_slot + 1
             /\ window' = Append(window, Added(TRUE, texture, rect, tint))
             /\ UNCHANGED panicked

\* An add_textured_rect that binds the texture after advancing the counter.
add_textured_rect_bind_late(rect, texture, tint) ==
    LET i == next_rect * 4
        slot == next_texture_slot
        c == Corners(rect, tint, slot, next_texture_slot)
    IN  IF ~InBounds(i + 0)
        THEN /\ panicked' = TRUE
             /\ log' = <<>>
             /\ UNCHANGED <<batch, window, texture_units>>
        ELSE /\ vertices' = WriteCorners(i, c)
             /\ next_rect' = next_rect + 1
             /\ next_texture_slot' = next_texture_slot + 1
             /\ texture_units' =
                    bind_to_slot(texture_units, texture,
                                 IF next_texture_slot' \in Units
                                 THEN next_texture_slot' ELSE 0)
             /\ log' = <<BindTextureUnit(next_texture_slot', texture)>>
             /\ window' = Append(window, Added(TRUE, texture, rect, tint))
             /\ UNCHANGED panicked

\* An add_textured_rect that binds its texture before it touches the array.
add_textured_rect_bind_first(rect, texture, tint) ==
    LET i == next_rect * 4
        slot == next_texture_slot
        c == Corners(rect, tint, slot, next_texture_slot)
    IN  /\ texture_units' = bind_to_slot(texture_units, texture, next_texture_slot)
        /\ log' = <<BindTextureUnit(next_texture_slot, texture)>>
        /\ IF ~InBounds(i + 0)
           THEN /\ panicked' = TRUE
                /\ UNCHANGED <<batch, window>>
           ELSE /\ vertices' = WriteCorners(i, c)
                /\ next_rect' = next_rect + 1
                /\ next_texture_slot' = next_texture_slot + 1
                /\ window' = Append(window, Added(TRUE, texture, rect, tint))
                /\ UNCHANGED panicked

\* An add_textured_rect that gives a texture the slot it already has in units
\* 1 .. next_texture_slot - 1, and a new slot only to a new texture.
add_textured_rect_sharing_slots(rect, texture, tint) ==
    LET i == next_rect * 4
        held == {u \in 1 .. next_texture_slot - 1 : texture_units[u] = texture}
        slot == IF held = {} THEN next_texture_slot
                ELSE CHOOSE u \in held : \A v \in held : u <= v
        c == Corners(rect, tint, slot, slot)
    IN  IF ~InBounds(i + 0)
        THEN /\ panicked' = TRUE
             /\ log' = <<>>
             /\ UNCHANGED <<batch, window, texture_units>>
        ELSE /\ vertices' = WriteCorners(i, c)
             /\ next_rect' = next_rect + 1
             /\ texture_units' = bind_to_slot(texture_units, texture, slot)
             /\ log' = <<BindTextureUnit(slot, texture)>>
             /\ next_texture_slot' =
                   IF held = {} THEN next_texture_slot + 1 ELSE next_texture_slot
             /\ window' = Append(window, Added(TRUE, texture, rect, tint))
             /\ UNCHANGED panicked

\* RectBatch::add_textured_rect
add_textured_rect(rect, texture, tint) ==
    LET i == next_rect * 4
        slot == next_texture_slot
        c == Corners(rect, tint, slot, next_texture_slot)
    IN  IF ~InBounds(i + 0)
        THEN /\ panicked' = TRUE
             /\ log' = <<>>
             /\ UNCHANGED <<batch, window, texture_units>>
        ELSE /\ vertices' = WriteCorners(i, c)
             /\ next_rect' = next_rect + 1
             /\ texture_units' = bind_to_slot(texture_units, texture, next_texture_slot)
             /\ log' = <<BindTextureUnit(next_texture_slot, texture)>>
             /\ next_texture_slot' = next_texture_slot + 1
             /\ window' = Append(window, Added(TRUE, texture, rect, tint))
             /\ UNCHANGED panicked

\* --------------------------------------------------------------- Renderer2D

\* A begin_batch that resets the batch and leaves unit 0 as it is.
begin_batch_no_bind ==
    /\ ~panicked
    /\ frames < MaxFrames
    /\ reset
    /\ log' = <<>>
    /\ call' = Call("begin_batch", NoArg, NoArg, NoArg)
    /\ unit0_rebound' = FALSE
    /\ frames' = frames + 1
    /\ UNCHANGED <<vertices, texture_units, program, panicked, index_buffer>>
    /\ UNCHANGED others

begin_batch ==
    /\ ~panicked
    /\ frames < MaxFrames
    /\ reset
    /\ texture_units' = bind_to_slot(texture_units, DefaultTexture, 0)
    /\ log' = <<BindTextureUnit(0, DefaultTexture)>>
    /\ call' = Call("begin_batch", NoArg, NoArg, NoArg)
    /\ unit0_rebound' = FALSE
    /\ frames' = frames + 1
    /\ UNCHANGED <<vertices, program, panicked, index_buffer>>
    /\ UNCHANGED others

\* An end_batch that rewinds the batch after drawing it.
end_batch_resets ==
    /\ ~panicked
    /\ program' = DefaultShader
    /\ log' = ShaderBind(DefaultShader) \o draw(program')
    /\ call' = Call("end_batch", NoArg, NoArg, NoArg)
    /\ reset
    /\ UNCHANGED <<vertices, texture_units, panicked, unit0_rebound, frames>>
    /\ UNCHANGED <<index_buffer, others>>

\* An end_batch that draws the rectangle count, not six indices a rectangle.
end_batch_count_rects ==
    /\ ~panicked
    /\ program' = DefaultShader
    /\ log' = ShaderBind(DefaultShader)
              \o set_data("rect_batch.vertex_buffer", vertices,
                          SizeOfRectVertex * 4 * next_rect)
              \o draw_elements("rect_batch.vertex_array", next_rect,
                               program', texture_units)
    /\ call' = Call("end_batch", NoArg, NoArg, NoArg)
    /\ UNCHANGED <<batch, texture_units, panicked, window, unit0_rebound, frames>>
    /\ UNCHANGED <<index_buffer, others>>

end_batch ==
    /\ ~panicked
    /\ program' = DefaultShader
    /\ log' = ShaderBind(DefaultShader) \o draw(program')
    /\ call' = Call("end_batch", NoArg, NoArg, NoArg)
    /\ UNCHANGED <<batch, texture_units, panicked, window, unit0_rebound, frames>>
    /\ UNCHANGED <<index_buffer, others>>

batch_rect(rect, color) ==
    /\ ~panicked
    /\ add_rect(rect, color)
    /\ call' = Call("batch_rect", rect, NoArg, color)
    /\ UNCHANGED <<program, unit0_rebound, frames, index_buffer>>
    /\ UNCHANGED others

batch_textured_rect(rect, texture, tint) ==
    /\ ~panicked
    /\ add_textured_rect(rect, texture, tint)
    /\ call' = Call("batch_textured_rect", rect, texture, tint)
    /\ UNCHANGED <<program, unit0_rebound, frames, index_buffer>>
    /\ UNCHANGED others

\* A draw_textured_rect that binds its texture after the draw call.
draw_textured_rect_bind_late(op, rect, texture, tint) ==
    LET c == Corners(rect, tint, 0, 0)
    IN  /\ program' = DefaultShader
        /\ texture_units' = bind_to_slot(texture_units, texture, 0)
        /\ log' = set_data("draw_textured_rect.vertex_buffer", c,
                           SizeOfRectVertex * 4)
                  \o index_set_data("draw_textured_rect.index_buffer", INDICES,
                                    SizeOfIndex * 6)
                  \o ShaderBind(DefaultShader)
                  \o draw_elements("draw_textured_rect.vertex_array", 6,
                                   program', texture_units)
                  \o <<BindTextureUnit(0, texture)>>
        /\ call' = Call(op, rect, texture, tint)
        /\ unit0_rebound' = TRUE
        /\ UNCHANGED <<batch, panicked, window, frames, index_buffer>>
        /\ UNCHANGED others

\* Renderer2D::draw_textured_rect, called as `op`.
draw_textured_rect_as(op, rect, texture, tint) ==
    LET c == Corners(rect, tint, 0, 0)
    IN  /\ program' = DefaultShader
        /\ texture_units' = bind_to_slot(texture_units, texture, 0)
        /\ log' = set_data("draw_textured_rect.vertex_buffer", c,
                           SizeOfRectVertex * 4)
                  \o index_set_data("draw_textured_rect.index_buffer", INDICES,
                                    SizeOfIndex * 6)
                  \o ShaderBind(DefaultShader)
                  \o <<BindTextureUnit(0, texture)>>
                  \o draw_elements("draw_textured_rect.vertex_array", 6,
                                   program', texture_units')
        /\ call' = Call(op, rect, texture, tint)
        /\ unit0_rebound' = TRUE
        /\ UNCHANGED <<batch, panicked, window, frames, index_buffer>>
        /\ UNCHANGED others

draw_textured_rect(rect, texture, tint) ==
    /\ ~panicked
    /\ draw_textured_rect_as("draw_textured_rect", rect, texture, tint)

draw_rect(rect, color) ==
    /\ ~panicked
    /\ draw_textured_rect_as("draw_rect", rect, DefaultTexture, color)

\* -------------------------------------------------------------- other code

\* The mesh pass of Application::execute (application.rs:163-165): binds the
\* mesh shader and draws the cube's 36 indices.
mesh_draw ==
    /\ ~panicked
    /\ program' = MeshShader
    /\ log' = ShaderBind(MeshShader)
              \o draw_elements("execute.vertex_array", 6 * 6, program', texture_units)
    /\ call' = Call("mesh_draw", NoArg, NoArg, NoArg)
    /\ UNCHANGED <<batch, texture_units, panicked, window, unit0_rebound, frames>>
    /\ UNCHANGED <<index_buffer, others>>

\* ------------------------------------------------------------------- Next

BatchRect == \E i \in RectInputs : batch_rect(i[1], i[2])

BatchTexturedRect ==
    \E i \in TexturedInputs, t \in UserTextures : batch_textured_rect(i[1], t, i[2])

DrawRect == \E i \in ImmediateInputs : draw_rect(i[1], i[2])

DrawTexturedRect ==
    \E i \in TexturedInputs, t \in UserTextures : draw_textured_rect(i[1], t, i[2])

Next ==
    \/ begin_batch
    \/ end_batch
    \/ BatchRect
    \/ BatchTexturedRect
    \/ DrawRect
    \/ DrawTexturedRect
    \/ mesh_draw

Spec == Init /\ [][Next]_vars

\* ------------------------------------------------- one call on one Rect

\* A freshly constructed renderer and a rectangle `input`; each renderer
\* entry point is called once with it, and Rect::bounds is called on it.
InitRect ==
    /\ RendererInit
    /\ AppIdle
    /\ FacadeReady
    /\ input \in GeomRects
    /\ output = NoOutput

RectBatchRect == call.op = "new" /\ batch_rect(input, Cyan)

RectBatchTexturedRect ==
    call.op = "new" /\ \E t \in UserTextures : batch_textured_rect(input, t, White)

RectDrawRect == call.op = "new" /\ draw_rect(input, Cyan)

RectDrawTexturedRect ==
    call.op = "new" /\ \E t \in UserTextures : draw_textured_rect(input, t, White)

RectBounds ==
    /\ output = NoOutput
    /\ output' = bounds(input)
    /\ UNCHANGED <<rvars, input, app, facade>>

NextRect ==
    \/ RectBatchRect
    \/ RectBatchTexturedRect
    \/ RectDrawRect
    \/ RectDrawTexturedRect
    \/ RectBounds

SpecRect == InitRect /\ [][NextRect]_vars

\* ------------------------------------------------------------ Shader::new

\* The objects Shader::new creates on the device.
ShaderObjects == {"vertex_shader", "fragment_shader", "program"}

\* What the device answers for the two sources: for each object whether its
\* compile or link succeeded (COMPILE_STATUS / LINK_STATUS not 0), and the
\* info log the device keeps for it.
ShaderInputs ==
    [success : [ShaderObjects -> BOOLEAN],
     info_log : { [o \in ShaderObjects |-> IF o \in holders THEN o \o " info log"
                                                            ELSE ""] :
                     holders \in SUBSET ShaderObjects }]

\* gl::GetShaderInfoLog / gl::GetProgramInfoLog of an object.
GetInfoLog(in, object) == in.info_log[object]

\* panic!(message, log)
Panic(message, info_log) == <<"panic", message, info_log>>

\* Shader::new: the Shader it returns, or the panic that ends it.
Shader_new(in) ==
    IF ~in.success["vertex_shader"]
    THEN Panic("Vertex shader compile error: ", GetInfoLog(in, "vertex_shader"))
    ELSE IF ~in.success["fragment_shader"]
    THEN Panic("Fragment shader compile error: ", GetInfoLog(in, "vertex_shader"))
    ELSE IF ~in.success["program"]
    THEN Panic("Program link error: ", GetInfoLog(in, "program"))
    ELSE <<"Shader", "program">>

InitShader ==
    /\ RendererInit
    /\ AppIdle
    /\ FacadeReady
    /\ input \in ShaderInputs
    /\ output = NoOutput

ShaderNew ==
    /\ output = NoOutput
    /\ output' = Shader_new(input)
    /\ UNCHANGED <<rvars, input, app, facade>>

NextShader == ShaderNew

SpecShader == InitShader /\ [][NextShader]_vars

\* ----------------------------------------------------------- BufferLayout

AttributeTypes == {"Float", "Vec2f", "Vec3f", "Vec4f"}

\* The number of components, not of bytes.
AttributeType_size_in_components(t) ==
    CASE t = "Float" -> 1
      [] t = "Vec2f" -> 2
      [] t = "Vec3f" -> 3
      [] t = "Vec4f" -> 4

\* AttributeType::size
AttributeType_size(t) ==
    CASE t = "Float" -> 4
      [] t = "Vec2f" -> 4 * 2
      [] t = "Vec3f" -> 4 * 3
      [] t = "Vec4f" -> 4 * 4

\* The attribute lists of at most n attributes.
RECURSIVE AttributeLists(_)
AttributeLists(n) ==
    IF n = 0 THEN {<<>>}
    ELSE LET shorter == AttributeLists(n - 1)
         IN  shorter \cup { Append(l, t) : l \in shorter, t \in AttributeTypes }

\* The loop of BufferLayout::new from attribute i on: offsets and the
\* running offset when it ends.
RECURSIVE LayoutLoop(_, _, _, _)
LayoutLoop(attributes, i, offsets, offset) ==
    IF i > Len(attributes)
    THEN [offsets |-> offsets, offset |-> offset]
    ELSE LayoutLoop(attributes, i + 1,
                    [offsets EXCEPT ![i] = offset],
                    offset + AttributeType_size(attributes[i]))

\* BufferLayout::new: <<offsets, stride>> of the layout it returns.
BufferLayout_new(attributes) ==
    LET r == LayoutLoop(attributes, 1, [i \in 1 .. Len(attributes) |-> 0], 0)
    IN  <<r.offsets, r.offset>>

InitLayout ==
    /\ RendererInit
    /\ AppIdle
    /\ FacadeReady
    /\ input \in AttributeLists(MaxAttributes)
    /\ output = NoOutput

LayoutNew ==
    /\ output = NoOutput
    /\ output' = BufferLayout_new(input)
    /\ UNCHANGED <<rvars, input, app, facade>>

NextLayout == LayoutNew

SpecLayout == InitLayout /\ [][NextLayout]_vars

\* --------------------------------------------------------------- Renderer

Enable(capability) == [cmd |-> "Enable", capability |-> capability]

BlendFunc(sfactor, dfactor) ==
    [cmd |-> "BlendFunc", sfactor |-> sfactor, dfactor |-> dfactor]

Viewport(x, y, width, height) ==
    [cmd |-> "Viewport", x |-> x, y |-> y, width |-> width, height |-> height]

ClearColor(color) == [cmd |-> "ClearColor", color |-> color]

Clear(mask) == [cmd |-> "Clear", mask |-> mask]

\* The process starts: nothing has called Renderer::init.
InitRenderer ==
    /\ RendererInit
    /\ CallIdle
    /\ AppIdle
    /\ INITIALIZED = FALSE
    /\ device = DeviceDefault
    /\ configurations = 0

\* What a Renderer call leaves alone.
RendererKeeps ==
    UNCHANGED <<batch, texture_units, program, panicked, window, unit0_rebound,
                frames, index_buffer, input, output, app>>

\* A Renderer::init without its guard.
init_unguarded ==
    /\ device' = Blended(device)
    /\ log' = <<Enable("BLEND"), BlendFunc("SRC_ALPHA", "ONE_MINUS_SRC_ALPHA")>>
    /\ INITIALIZED' = TRUE
    /\ configurations' = configurations + 1
    /\ call' = Call("init", NoArg, NoArg, NoArg)
    /\ RendererKeeps

\* Renderer::init
init ==
    /\ IF INITIALIZED
       THEN /\ log' = <<>>
            /\ UNCHANGED facade
       ELSE /\ device' = Blended(device)
            /\ log' = <<Enable("BLEND"),
                        BlendFunc("SRC_ALPHA", "ONE_MINUS_SRC_ALPHA")>>
            /\ INITIALIZED' = TRUE
            /\ configurations' = configurations + 1
    /\ call' = Call("init", NoArg, NoArg, NoArg)
    /\ RendererKeeps

\* Renderer::set_viewport
set_viewport(x, y, width, height) ==
    /\ device' = [device EXCEPT !.viewport = <<x, y, width, height>>]
    /\ log' = <<Viewport(x, y, width, height)>>
    /\ call' = Call("set_viewport", <<x, y, width, height>>, NoArg, NoArg)
    /\ UNCHANGED <<INITIALIZED, configurations>>
    /\ RendererKeeps

\* Renderer::set_clear_color
set_clear_color(color) ==
    /\ device' = [device EXCEPT !.clear_color = color]
    /\ log' = <<ClearColor(color)>>
    /\ call' = Call("set_clear_color", NoArg, NoArg, color)
    /\ UNCHANGED <<INITIALIZED, configurations>>
    /\ RendererKeeps

\* Renderer::clear
clear ==
    /\ log' = <<Clear("COLOR_BUFFER_BIT")>>
    /\ call' = Call("clear", NoArg, NoArg, NoArg)
    /\ UNCHANGED facade
    /\ RendererKeeps

SetViewport ==
    \E v \in { <<0, 0, 800, 600>>, <<0, 0, 400, 300>> } :
        set_viewport(v[1], v[2], v[3], v[4])

SetClearColor ==
    \E color \in {<<0, 0, 0, 0>>, White, Cyan} : set_clear_color(color)

NextRenderer ==
    \/ init
    \/ SetViewport
    \/ SetClearColor
    \/ clear

SpecRenderer == InitRenderer /\ [][NextRenderer]_vars

\* ---------------------------------------------------------------- Texture

\* Texture::bind_to_slot(slot) on one of the textures, called directly.
TextureBindToSlot ==
    \E t \in {DefaultTexture} \cup UserTextures, slot \in Units :
        /\ texture_units' = bind_to_slot(texture_units, t, slot)
        /\ log' = <<BindTextureUnit(slot, t)>>
        /\ call' = Call("bind_to_slot", NoArg, t, NoArg)
        /\ input' = slot
        /\ UNCHANGED <<batch, program, panicked, window, unit0_rebound, frames,
                       index_buffer, output, app, facade>>

\* Texture::unbind_from_slot(slot), called directly.
TextureUnbindFromSlot ==
    \E slot \in Units :
        /\ texture_units' = unbind_from_slot(texture_units, slot)
        /\ log' = <<BindTextureUnit(0, NoTexture)>>
        /\ call' = Call("unbind_from_slot", NoArg, NoArg, NoArg)
        /\ input' = slot
        /\ UNCHANGED <<batch, program, panicked, window, unit0_rebound, frames,
                       index_buffer, output, app, facade>>

NextTexture ==
    \/ TextureBindToSlot
    \/ TextureUnbindFromSlot

SpecTexture == Init /\ [][NextTexture]_vars

\* gl::BindTexture(TEXTURE_2D, texture), on the active unit, which is unit 0.
BindTexture(texture) == [cmd |-> "BindTexture", texture |-> texture]

TexImage2D(width, height) ==
    [cmd |-> "TexImage2D", width |-> width, height |-> height]

\* The arguments of Texture::with_data: data.len(), width and height, with
\* lengths up to three bytes more than the largest image.
WithDataInputs ==
    [len : 0 .. 4 * MaxDim * MaxDim + 3, width : 0 .. MaxDim, height : 0 .. MaxDim]

\* assert_eq!(data.len() / 4, (width * height) as usize) passes.
WithDataAccepts(in) == in.len \div 4 = in.width * in.height

InitWithData ==
    /\ RendererInit
    /\ AppIdle
    /\ FacadeReady
    /\ input \in WithDataInputs
    /\ output = NoOutput

\* Texture::with_data: the assertion, then the texture is created, bound
\* to the active unit and given the image.
with_data ==
    /\ output = NoOutput
    /\ IF WithDataAccepts(input)
       THEN /\ output' = <<"Texture", "with_data.texture">>
            /\ texture_units' = bind_to_slot(texture_units, "with_data.texture", 0)
            /\ log' = <<BindTexture("with_data.texture"),
                        TexImage2D(input.width, input.height)>>
            /\ UNCHANGED panicked
       ELSE /\ output' = <<"panic", "assertion left == right failed">>
            /\ panicked' = TRUE
            /\ log' = <<>>
            /\ UNCHANGED texture_units
    /\ call' = Call("with_data", NoArg, NoArg, NoArg)
    /\ UNCHANGED <<batch, program, window, unit0_rebound, frames, index_buffer,
                   input, app, facade>>

NextWithData == with_data

SpecWithData == InitWithData /\ [][NextWithData]_vars

\* ---------------------------------------------------- Application::execute

\* The events the loop tells apart: Event::Quit and any other event.
EventKinds == {"Quit", "KeyDown"}

\* What one pass of `for event in event_pump.poll_iter()` can yield.
RECURSIVE EventSeqs(_)
EventSeqs(n) ==
    IF n = 0 THEN {<<>>}
    ELSE LET shorter == EventSeqs(n - 1)
         IN  shorter \cup { Append(q, e) : q \in shorter, e \in EventKinds }

\* `for layer in self.layers.iter_mut()` from layer i on, where results[j] is
\* what layers[j].on_event(&event) returns if it is called: the calls made,
\* and whether one returned true (the `continue 'event_loop`).
RECURSIVE Propagate_no_stop(_, _, _)
Propagate_no_stop(i, results, offered) ==
    IF i > Len(layers)
    THEN [offered |-> offered,
          handled |-> \E n \in 1 .. Len(offered) : offered[n].result]
    ELSE Propagate_no_stop(i + 1, results,
             Append(offered, [layer |-> layers[i], result |-> results[i]]))

RECURSIVE Propagate(_, _, _)
Propagate(i, results, offered) ==
    IF i > Len(layers)
    THEN [offered |-> offered, handled |-> FALSE]
    ELSE LET o == Append(offered, [layer |-> layers[i], result |-> results[i]])
         IN  IF results[i]
             THEN [offered |-> o, handled |-> TRUE]
             ELSE Propagate(i + 1, results, o)

\* Application::new and the part of execute before the loop; the layers are
\* whatever the vector holds when the loop is entered.
InitApp ==
    /\ RendererInit
    /\ CallIdle
    /\ FacadeReady
    /\ layers \in { [n \in 1 .. k |-> n] : k \in 0 .. MaxLayers }
    /\ pending = <<>>
    /\ pc = "running"
    /\ dispatch = NoDispatch
    /\ updates = <<>>
    /\ frame = <<>>

\* Top of 'running: Renderer::clear(), and the event loop is entered with
\* the events this pass will yield.
LoopClear ==
    /\ pc = "running"
    /\ pc' = "event_loop"
    /\ pending' \in EventSeqs(MaxEvents)
    /\ dispatch' = NoDispatch
    /\ updates' = <<>>
    /\ frame' = <<"clear">>
    /\ UNCHANGED <<rvars, facade, input, output, layers>>

\* An event loop that leaves 'running on every Quit, handled or not.
LoopEvent_quit_always ==
    /\ pc = "event_loop"
    /\ pending # <<>>
    /\ \E results \in [1 .. Len(layers) -> BOOLEAN] :
          LET event == Head(pending)
              p == Propagate(1, results, <<>>)
          IN  /\ dispatch' = [event |-> event, offered |-> p.offered,
                              default |-> IF p.handled THEN 0 ELSE 1]
              /\ pc' = IF event = "Quit" THEN "exited" ELSE "event_loop"
    /\ pending' = Tail(pending)
    /\ UNCHANGED <<rvars, facade, input, output, layers, updates, frame>>

\* One iteration of 'event_loop: the event is offered to the layers, and,
\* if none handled it, to the default handling, where Quit leaves 'running.
LoopEvent ==
    /\ pc = "event_loop"
    /\ pending # <<>>
    /\ \E results \in [1 .. Len(layers) -> BOOLEAN] :
          LET event == Head(pending)
              p == Propagate(1, results, <<>>)
          IN  /\ dispatch' = [event |-> event, offered |-> p.offered,
                              default |-> IF p.handled THEN 0 ELSE 1]
              /\ pc' = IF ~p.handled /\ event = "Quit" THEN "exited"
                                                       ELSE "event_loop"
    /\ pending' = Tail(pending)
    /\ UNCHANGED <<rvars, facade, input, output, layers, updates, frame>>

\* An on_update loop that passes over the first layer.
RECURSIVE UpdateLoop_from_second(_, _)
UpdateLoop_from_second(i, called) ==
    IF i > Len(layers) THEN called
    ELSE UpdateLoop_from_second(i + 1,
             IF i = 1 THEN called ELSE Append(called, layers[i]))

\* `for layer in self.layers.iter_mut() { layer.on_update(); }` from layer i
\* on: the layers whose on_update was called, in call order.
RECURSIVE UpdateLoop(_, _)
UpdateLoop(i, called) ==
    IF i > Len(layers) THEN called
    ELSE UpdateLoop(i + 1, Append(called, layers[i]))

\* The event loop is over: every layer's on_update, in order.
LoopUpdate ==
    /\ pc = "event_loop"
    /\ pending = <<>>
    /\ updates' = UpdateLoop(1, updates)
    /\ pc' = "draw"
    /\ UNCHANGED <<rvars, facade, input, output, layers, pending, dispatch, frame>>

\* The rest of the iteration: the mesh pass, the batch and the buffer swap.
LoopDraw ==
    /\ pc = "draw"
    /\ frame' = frame \o <<"shader.bind", "draw_elements", "begin_batch",
                            "batch_rect", "batch_textured_rect", "end_batch",
                            "gl_swap_window">>
    /\ pc' = "running"
    /\ UNCHANGED <<rvars, facade, input, output, layers, pending, dispatch, updates>>

NextApp ==
    \/ LoopClear
    \/ LoopEvent
    \/ LoopUpdate
    \/ LoopDraw

SpecApp == InitApp /\ [][NextApp]_vars

\* The loop runs on a thread that is not suspended: poll_iter does not block,
\* and each step of the body is followed by the next one.
SpecAppFair == SpecApp /\ WF_vars(NextApp)

\* ------------------------------------------------------------------ claims

\* The uploads and the draw calls among the commands of the last call.
Uploads == SelectSeq(log, LAMBDA c : c.cmd = "BufferData")

Draws == SelectSeq(log, LAMBDA c : c.cmd = "DrawElements")

\* Number of add_textured_rect calls among the first j adds of the window.
TexturedUpTo(j) == Cardinality({m \in 1 .. j : window[m].textured})

\* The vertex indices of the j-th rectangle of the window (j = 1, 2, ...).
RecordsOf(j) == 4 * (j - 1) .. 4 * (j - 1) + 3

\* C1 (P1): after N <= MAX_RECTS_IN_BATCH adds of any mix since the last
\* reset, draw() uploads exactly the 4N vertex records 0 .. 4N-1
\* (4N * sizeof(RectVertex) bytes from the start of the staging array) and
\* issues exactly one indexed draw call, of 6N indices.
C1_DrawUploads4NDraws6N ==
    call.op = "end_batch" =>
        LET N == Len(window) IN
        /\ N <= MAX_RECTS_IN_BATCH
        /\ Len(Uploads) = 1
        /\ Uploads[1].buffer = "rect_batch.vertex_buffer"
        /\ Uploads[1].size = 4 * N * SizeOfRectVertex
        /\ DOMAIN Uploads[1].data = 0 .. 4 * N - 1
        /\ \A k \in 0 .. 4 * N - 1 : Uploads[1].data[k] = vertices[k]
        /\ Len(Draws) = 1
        /\ Draws[1].vertex_array = "rect_batch.vertex_array"
        /\ Draws[1].count = 6 * N

\* A full batch of both kinds of rectangle has been drawn.
C1_Witness ==
    /\ call.op = "end_batch"
    /\ Len(window) = MAX_RECTS_IN_BATCH
    /\ \E j \in 1 .. Len(window) : window[j].textured
    /\ \E j \in 1 .. Len(window) : ~window[j].textured

\* C2: in every reachable state 1 <= next_texture_slot <= MAX_TEXTURE_SLOTS.
C2_TextureSlotInRange ==
    /\ 1 <= next_texture_slot
    /\ next_texture_slot <= MAX_TEXTURE_SLOTS

\* C3: texture capacity is enforced by failing fast: a batch_textured_rect
\* made when MAX_TEXTURE_SLOTS - 1 textured rectangles were already added in
\* the window does not complete, so no vertex carries a slot >=
\* MAX_TEXTURE_SLOTS and no texture is bound to a unit >= MAX_TEXTURE_SLOTS.
C3_TextureCapacityFailsFast ==
    frames >= 1 =>
        /\ (call.op = "batch_textured_rect" /\ ~panicked) =>
                TexturedUpTo(Len(window)) <= MAX_TEXTURE_SLOTS - 1
        /\ \A j \in 1 .. Len(window) : \A k \in RecordsOf(j) :
                vertices[k].slot < MAX_TEXTURE_SLOTS
        /\ \A c \in 1 .. Len(log) :
                log[c].cmd = "BindTextureUnit" => log[c].unit < MAX_TEXTURE_SLOTS

\* C4: in every reachable state 0 <= next_rect <= MAX_RECTS_IN_BATCH, and
\* next_rect is the number of add calls completed since the last reset (or
\* since construction).
C4_NextRectInRange ==
    /\ 0 <= next_rect
    /\ next_rect <= MAX_RECTS_IN_BATCH
    /\ next_rect = Len(window)

\* An add was refused on a full batch, in a window opened by begin_batch.
C4_Witness ==
    /\ panicked
    /\ call.op = "batch_textured_rect"
    /\ frames >= 1
    /\ next_rect = MAX_RECTS_IN_BATCH

\* C5 (P6): add_rect on a full batch (next_rect = MAX_RECTS_IN_BATCH) panics
\* and has no other effect: no vertex record is written, inside or outside
\* the staging array, the counters keep their values (no wrap-around), and
\* nothing is sent to the device (no flush).
C5_AddRectAtCapacityPanics ==
    [][ (next_rect = MAX_RECTS_IN_BATCH /\ BatchRect) =>
            /\ panicked'
            /\ vertices' = vertices
            /\ next_rect' = next_rect
            /\ next_texture_slot' = next_texture_slot
            /\ texture_units' = texture_units
            /\ program' = program
            /\ log' = <<>> ]_vars

\* batch_rect was called on a full batch.
C5_Witness ==
    /\ panicked
    /\ call.op = "batch_rect"
    /\ next_rect = MAX_RECTS_IN_BATCH
    /\ \A k \in DOMAIN vertices : vertices[k] # RectVertexDefault

\* C6: draw_rect / draw_textured_rect calls made between begin_batch and
\* end_batch leave the batch draw as it would be without them: unit 0 is
\* bound to the default white texture when end_batch issues its draw call.
C6_UnbatchedLeavesUnit0White ==
    (call.op = "end_batch" /\ frames >= 1) =>
        \A d \in 1 .. Len(Draws) : Draws[d].units[0] = DefaultTexture

\* C7 (P3): the k-th add_textured_rect of a window writes slot k into all
\* four of its vertices, however many add_rect calls are interleaved; every
\* add_rect writes slot 0 into all four of its vertices; no textured
\* rectangle has slot 0.
C7_SlotAssignment ==
    \A j \in 1 .. Len(window) :
        \A k \in RecordsOf(j) :
            /\ k \in DOMAIN vertices
            /\ window[j].textured => /\ vertices[k].slot = TexturedUpTo(j)
                                     /\ vertices[k].slot # 0
            /\ ~window[j].textured => vertices[k].slot = 0

\* A textured rectangle, an untextured one, then a second textured one.
C7_Witness ==
    /\ Len(window) >= 3
    /\ window[1].textured
    /\ ~window[2].textured
    /\ window[3].textured
    /\ frames >= 1

\* C8: a completed add_textured_rect has written one slot value into its four
\* vertices, has bound the supplied texture to the unit of that number during
\* the call (and no other unit), and has advanced next_rect and
\* next_texture_slot by exactly 1.
C8_EagerBind ==
    [][ \A i \in TexturedInputs, t \in UserTextures :
            (batch_textured_rect(i[1], t, i[2]) /\ ~panicked') =>
                LET s == vertices'[4 * next_rect].slot IN
                /\ \A k \in 4 * next_rect .. 4 * next_rect + 3 :
                        vertices'[k].slot = s
                /\ s \in Units
                /\ texture_units'[s] = t
                /\ \A u \in Units \ {s} : texture_units'[u] = texture_units[u]
                /\ log' = <<BindTextureUnit(s, t)>>
                /\ next_rect' = next_rect + 1
                /\ next_texture_slot' = next_texture_slot + 1 ]_vars

\* The second textured rectangle of a window was added after an untextured
\* one, with a texture other than the first one's.
C8_Witness ==
    /\ call.op = "batch_textured_rect"
    /\ ~panicked
    /\ next_texture_slot = 3
    /\ next_rect = 3
    /\ texture_units[1] # texture_units[2]

\* C9 (scenario): begin_batch, one batch_rect, one batch_textured_rect with
\* texture T, end_batch: 8 vertex records are uploaded, one draw call of 12
\* indices is issued, T is on unit 1 and the default white texture on unit 0
\* when the draw call is issued, vertices 0..3 carry slot 0 and vertices 4..7
\* slot 1.
C9_Scenario ==
    (/\ call.op = "end_batch"
     /\ frames >= 1
     /\ ~unit0_rebound
     /\ Len(window) = 2
     /\ ~window[1].textured
     /\ window[2].textured) =>
        /\ Len(Uploads) = 1
        /\ DOMAIN Uploads[1].data = 0 .. 7
        /\ \A k \in 0 .. 3 : Uploads[1].data[k].slot = 0
        /\ \A k \in 4 .. 7 : Uploads[1].data[k].slot = 1
        /\ Len(Draws) = 1
        /\ Draws[1].count = 12
        /\ Draws[1].units[1] = window[2].texture
        /\ Draws[1].units[0] = DefaultTexture

\* The scenario has run with the application's texture.
C9_Witness ==
    /\ call.op = "end_batch"
    /\ frames >= 1
    /\ ~unit0_rebound
    /\ window = <<Added(FALSE, NoTexture, Rect200, Cyan),
                  Added(TRUE, "texture", Rect100, White)>>

\* C10: end_batch binds the Renderer2D shader before it issues the batch draw
\* call, so the draw call runs with that shader whatever was in use before;
\* begin_batch binds the default white texture to unit 0 after resetting the
\* batch, so the draw call finds it there when nothing rebinds unit 0 inside
\* the window.
C10_RebindsBeforeUse ==
    /\ call.op = "end_batch" =>
          /\ Len(log) = 3
          /\ log[1] = UseProgram(DefaultShader)
          /\ log[3].cmd = "DrawElements"
          /\ log[3].program = DefaultShader
          /\ (frames >= 1 /\ ~unit0_rebound) => log[3].units[0] = DefaultTexture
    /\ call.op = "begin_batch" =>
          /\ log = <<BindTextureUnit(0, DefaultTexture)>>
          /\ texture_units[0] = DefaultTexture
          /\ next_rect = 0
          /\ next_texture_slot = 1

\* A batch with a stale rectangle beyond its live prefix was drawn in a
\* window in which nothing rebound unit 0.
C10_Witness ==
    /\ call.op = "end_batch"
    /\ frames >= 1
    /\ ~unit0_rebound
    /\ next_rect = 1
    /\ vertices[4] # RectVertexDefault

\* ----------------------------------------------------------------- C11

\* The four corners of a rectangle in the order bottom-left, bottom-right,
\* top-right, top-left, and the UV pairs that go with them.
CornerPositions(rect) ==
    << <<left(rect), bottom(rect), rect.position[3]>>,
       <<right(rect), bottom(rect), rect.position[3]>>,
       <<right(rect), top(rect), rect.position[3]>>,
       <<left(rect), top(rect), rect.position[3]>> >>

CornerUVs(rect) ==
    << rect.uv_min,
       <<rect.uv_max[1], rect.uv_min[2]>>,
       rect.uv_max,
       <<rect.uv_min[1], rect.uv_max[2]>> >>

\* The four records the last call emitted: the first four of the batch after
\* an add into an empty batch, the vertex upload after an unbatched draw.
Emitted ==
    IF call.op \in {"batch_rect", "batch_textured_rect"}
    THEN [k \in 0 .. 3 |-> vertices[k]]
    ELSE log[1].data

\* C11: add_rect, add_textured_rect and draw_textured_rect (draw_rect calls
\* it) emit the corners bottom-left, bottom-right, top-right, top-left, each
\* with z = rect.position.z, with the UVs uv_min, (uv_max.x, uv_min.y),
\* uv_max, (uv_min.x, uv_max.y); for position (0,0,0), size (200,100), pivot
\* (0,0), uv (0,0)-(1,1) these are (0,0,0), (200,0,0), (200,100,0), (0,100,0)
\* and (0,0), (1,0), (1,1), (0,1).
C11_CornerOrder ==
    (call.op \in {"batch_rect", "batch_textured_rect", "draw_rect",
                  "draw_textured_rect"} /\ ~panicked) =>
        /\ \A k \in 0 .. 3 :
              /\ Emitted[k].position = CornerPositions(call.rect)[k + 1]
              /\ Emitted[k].uv = CornerUVs(call.rect)[k + 1]
        /\ call.rect = Rect200 =>
              /\ [k \in 0 .. 3 |-> Emitted[k].position] =
                    [k \in 0 .. 3 |->
                        << <<0, 0, 0>>, <<200, 0, 0>>,
                           <<200, 100, 0>>, <<0, 100, 0>> >>[k + 1]]
              /\ [k \in 0 .. 3 |-> Emitted[k].uv] =
                    [k \in 0 .. 3 |->
                        << <<0, 0>>, <<1, 0>>, <<1, 1>>, <<0, 1>> >>[k + 1]]

\* A textured add of a rectangle off the origin, with a depth, a centred
\* pivot and the second UV rectangle.
C11_Witness ==
    /\ call.op = "batch_textured_rect"
    /\ call.rect = Rect(<<0 - 100, 50, 1>>, <<200, 100>>, <<1, 1>>,
                        <<1, 2>>, <<3, 4>>)
    /\ vertices[2].position = <<0, 100, 1>>
    /\ vertices[2].uv = <<3, 4>>

\* ----------------------------------------------------------------- C12

\* No f32 operation of the bounds of rect rounds: the coordinates reached
\* stay below 2^24 in magnitude (sizes are even, pivots are halves).
ExactBounds(rect) ==
    \A d \in 1 .. 2 :
        /\ rect.size[d] >= 0
        /\ rect.position[d] + rect.size[d] < 2^24
        /\ rect.position[d] - rect.size[d] > 0 - 2^24

\* C12 as stated: right - left = size.x and top - bottom = size.y for every
\* rectangle (bounds() returns left, right, top, bottom).
C12_ExtentIsSizeAlways ==
    output # NoOutput =>
        /\ F32(output[2] - output[1]) = input.size[1]
        /\ F32(output[3] - output[4]) = input.size[2]

\* C12: bounds() returns (left, right, top, bottom) with left = position.x -
\* size.x*pivot.x, right = position.x + size.x*(1 - pivot.x), bottom =
\* position.y - size.y*pivot.y, top = position.y + size.y*(1 - pivot.y)
\* (the pivot in halves here); when no operation rounds, right - left =
\* size.x and top - bottom = size.y; for position (0,0), size (200,100),
\* pivot (0.5,0.5) gives (-100, 100, 50, -50) and pivot (1,1) gives
\* (-200, 0, 0, -100).
C12_Bounds ==
    output # NoOutput =>
        /\ ExactBounds(input) =>
              /\ 2 * output[1] = 2 * input.position[1]
                                   - input.size[1] * input.pivot[1]
              /\ 2 * output[2] = 2 * input.position[1]
                                   + input.size[1] * (2 - input.pivot[1])
              /\ 2 * output[4] = 2 * input.position[2]
                                   - input.size[2] * input.pivot[2]
              /\ 2 * output[3] = 2 * input.position[2]
                                   + input.size[2] * (2 - input.pivot[2])
              /\ output[2] - output[1] = input.size[1]
              /\ output[3] - output[4] = input.size[2]
        /\ ( /\ input.position = <<0, 0, 0>>
             /\ input.size = <<200, 100>>
             /\ input.pivot = <<1, 1>> ) =>
                output = <<0 - 100, 100, 50, 0 - 50>>
        /\ ( /\ input.position = <<0, 0, 0>>
             /\ input.size = <<200, 100>>
             /\ input.pivot = <<2, 2>> ) =>
                output = <<0 - 200, 0, 0, 0 - 100>>

\* bounds() was called on the 200 x 100 rectangle at the origin with the
\* pivot at its centre.
C12_Witness ==
    /\ input.position = <<0, 0, 0>>
    /\ input.size = <<200, 100>>
    /\ input.pivot = <<1, 1>>
    /\ output = <<0 - 100, 100, 50, 0 - 50>>

\* ----------------------------------------------------------------- C13

\* C13: draw() (reached through end_batch) leaves next_rect,
\* next_texture_slot and the staged vertices as they were; an end_batch that
\* follows an end_batch issues the same commands (the same 4N records, the
\* same 6N indices); an add that follows an end_batch continues from the
\* counters end_batch left: it takes rectangle next_rect, keeps the records
\* before it, and a textured add takes slot next_texture_slot.
C13_DrawKeepsBatch ==
    [][ /\ call'.op = "end_batch" =>
              /\ batch' = batch
              /\ call.op = "end_batch" => log' = log
        /\ ( /\ call.op = "end_batch"
             /\ call'.op \in {"batch_rect", "batch_textured_rect"}
             /\ ~panicked' ) =>
              /\ next_rect' = next_rect + 1
              /\ \A k \in 0 .. 4 * next_rect - 1 : vertices'[k] = vertices[k]
              /\ vertices'[4 * next_rect].slot =
                    IF call'.op = "batch_rect" THEN 0 ELSE next_texture_slot
      ]_vars

\* An end_batch has drawn two rectangles, one of them textured, and the
\* batch still holds them.
C13_Witness ==
    /\ call.op = "end_batch"
    /\ next_rect = 2
    /\ next_texture_slot = 2
    /\ Len(window) = 2
    /\ vertices[4] # RectVertexDefault
    /\ Draws[1].count = 12

\* ----------------------------------------------------------------- C14

\* C14: reset() (reached through begin_batch) sets next_rect = 0 and
\* next_texture_slot = 1 from any state and changes nothing else: the staged
\* records, the index buffer and the texture units are as before (unit 0 is
\* bound by begin_batch itself, after reset), and the only device command of
\* the call is that bind, so no storage is allocated; a second reset leaves
\* the same values.
C14_ResetRewindsCountersOnly ==
    [][ call'.op = "begin_batch" =>
          /\ next_rect' = 0
          /\ next_texture_slot' = 1
          /\ vertices' = vertices
          /\ index_buffer' = index_buffer
          /\ \A u \in Units \ {0} : texture_units'[u] = texture_units[u]
          /\ log' = <<BindTextureUnit(0, DefaultTexture)>>
          /\ program' = program
      ]_vars

\* A begin_batch has rewound a batch that held rectangles: the counters are
\* 0 and 1, the records and the unit of the textured one are still there.
C14_Witness ==
    /\ call.op = "begin_batch"
    /\ next_rect = 0
    /\ next_texture_slot = 1
    /\ vertices[0] # RectVertexDefault
    /\ texture_units[1] \in UserTextures

\* ----------------------------------------------------------------- C15

\* C15 (P4): an end_batch with no add since the last begin_batch uploads
\* zero vertex records (zero bytes) and issues one draw call, of 0 indices,
\* whatever the batch held before the begin_batch.
C15_EmptyBatchDrawsNothing ==
    (call.op = "end_batch" /\ frames >= 1 /\ window = <<>>) =>
        /\ Len(Uploads) = 1
        /\ Uploads[1].size = 0
        /\ DOMAIN Uploads[1].data = {}
        /\ Len(Draws) = 1
        /\ Draws[1].count = 0

\* The empty batch was drawn while the staging array still held the
\* records of rectangles added before the begin_batch.
C15_Witness ==
    /\ call.op = "end_batch"
    /\ frames >= 1
    /\ window = <<>>
    /\ vertices[0] # RectVertexDefault
    /\ vertices[4] # RectVertexDefault
    /\ Draws[1].count = 0

\* ----------------------------------------------------------------- C17

\* C17: add_rect (reached through batch_rect) that does not panic changes
\* the four records 4*next_rect .. 4*next_rect+3 and increments next_rect by
\* 1; every other record, next_texture_slot and every texture unit are
\* unchanged, it sends no device command, and the four records carry the
\* given color and slot 0.
C17_AddRectWritesFourRecords ==
    [][ (call'.op = "batch_rect" /\ ~panicked') =>
          /\ next_rect' = next_rect + 1
          /\ \A k \in DOMAIN vertices :
                k \notin 4 * next_rect .. 4 * next_rect + 3 =>
                    vertices'[k] = vertices[k]
          /\ next_texture_slot' = next_texture_slot
          /\ texture_units' = texture_units
          /\ log' = <<>>
          /\ \A k \in 4 * next_rect .. 4 * next_rect + 3 :
                /\ vertices'[k].color = call'.color
                /\ vertices'[k].slot = 0
      ]_vars

\* An untextured add has landed between two textured rectangles: it is the
\* second of the batch, and the third, written earlier, is still in place.
C17_Witness ==
    /\ call.op = "batch_rect"
    /\ next_rect = 2
    /\ next_texture_slot = 2
    /\ vertices[0].slot = 1
    /\ vertices[4].slot = 0
    /\ vertices[4].color = call.color
    /\ vertices[8].slot # 0

\* ----------------------------------------------------------------- C16

\* C16 (P5): the index data RectBatch::new builds holds, for every rectangle
\* i in 0 .. MAX_RECTS_IN_BATCH - 1, the indices 4i, 4i+1, 4i+2, 4i, 4i+2,
\* 4i+3 at positions 6i .. 6i+5; the device's index buffer holds what
\* construction uploaded of it in every state, and no call sends a command
\* that writes it.
C16_IndexPattern ==
    /\ \A i \in 0 .. MAX_RECTS_IN_BATCH - 1 :
          [k \in 0 .. 5 |-> Indices[6 * i + k]] =
          [k \in 0 .. 5 |-> 4 * i + <<0, 1, 2, 0, 2, 3>>[k + 1]]
    /\ \A k \in DOMAIN index_buffer : index_buffer[k] = Indices[k]
    /\ \A c \in 1 .. Len(log) :
          log[c].cmd = "BufferData" => log[c].buffer # "rect_batch.index_buffer"

\* A batch of two rectangles was drawn after a begin_batch, and the index
\* buffer holds the indices of construction.
C16_Witness ==
    /\ call.op = "end_batch"
    /\ frames >= 1
    /\ next_rect = 2
    /\ Draws[1].count = 12
    /\ index_buffer[1] = 1
    /\ index_buffer[3] = 0

\* ----------------------------------------------------------------- C18

\* The commands of the log before its first DrawElements.
BeforeDraw ==
    LET d == CHOOSE n \in 1 .. Len(log) :
                 /\ log[n].cmd = "DrawElements"
                 /\ \A m \in 1 .. n - 1 : log[m].cmd # "DrawElements"
    IN  SubSeq(log, 1, d - 1)

\* C18: a draw_textured_rect call uploads four records, all with slot 0, to
\* a vertex buffer of its own and the six indices 0,1,2,0,2,3 to an index
\* buffer of its own, binds the Renderer2D shader and the given texture to
\* unit 0 before its draw call, issues exactly one draw call, of 6 indices,
\* and leaves next_rect, next_texture_slot and the staged vertices
\* unchanged; draw_rect does the same with the default white texture.
C18_UnbatchedPath ==
    [][ call'.op \in {"draw_rect", "draw_textured_rect"} =>
          LET uploads == SelectSeq(log', LAMBDA c : c.cmd = "BufferData")
              draws == SelectSeq(log', LAMBDA c : c.cmd = "DrawElements")
              before == BeforeDraw'
          IN  /\ batch' = batch
              /\ Len(uploads) = 2
              /\ uploads[1].buffer = "draw_textured_rect.vertex_buffer"
              /\ DOMAIN uploads[1].data = 0 .. 3
              /\ \A k \in 0 .. 3 : /\ uploads[1].data[k].slot = 0
                                    /\ uploads[1].data[k].color = call'.color
              /\ uploads[2].buffer = "draw_textured_rect.index_buffer"
              /\ uploads[2].data = [k \in 0 .. 5 |-> <<0, 1, 2, 0, 2, 3>>[k + 1]]
              /\ Len(draws) = 1
              /\ draws[1].count = 6
              /\ draws[1].vertex_array = "draw_textured_rect.vertex_array"
              /\ draws[1].program = DefaultShader
              /\ draws[1].units[0] = call'.texture
              /\ \E n \in 1 .. Len(before) : before[n] = UseProgram(DefaultShader)
              /\ \E n \in 1 .. Len(before) :
                    before[n] = BindTextureUnit(0, call'.texture)
              /\ call'.op = "draw_rect" => call'.texture = DefaultTexture
      ]_vars

\* An unbatched textured draw was made while the batch held two rectangles.
C18_Witness ==
    /\ call.op = "draw_textured_rect"
    /\ call.texture \in UserTextures
    /\ next_rect = 2
    /\ next_texture_slot = 2
    /\ texture_units[0] = call.texture
    /\ Draws[1].count = 6

\* ----------------------------------------------------------------- C19

\* The first object whose compile or link failed, in the order Shader::new
\* builds them.
FailingObject(in) ==
    IF ~in.success["vertex_shader"] THEN "vertex_shader"
    ELSE IF ~in.success["fragment_shader"] THEN "fragment_shader"
    ELSE "program"

\* C19: when the vertex compile, the fragment compile or the link fails,
\* Shader::new panics and returns no Shader, and the text of the panic is
\* the info log of the object that failed: the vertex shader's for a vertex
\* failure, the fragment shader's for a fragment failure, the program's for
\* a link failure.
C19_PanicCarriesFailingStageLog ==
    (output # NoOutput /\ \E o \in ShaderObjects : ~input.success[o]) =>
        /\ output[1] = "panic"
        /\ output[3] = GetInfoLog(input, FailingObject(input))

\* ----------------------------------------------------------------- C20

\* C20: an event is offered to the layers in the order they are stored,
\* each at most once; after a layer's on_event returns true no later layer
\* is offered the event and the default handling does not get it, so the
\* loop is left only on a Quit that no layer handled; an event for which
\* every layer returns false is offered to every layer and reaches the
\* default handling exactly once.
C20_EventPropagation ==
    dispatch # NoDispatch =>
        LET o == dispatch.offered
            consumed == \E n \in 1 .. Len(o) : o[n].result
        IN  /\ Len(o) <= Len(layers)
            /\ \A n \in 1 .. Len(o) : o[n].layer = layers[n]
            /\ \A n \in 1 .. Len(o) - 1 : ~o[n].result
            /\ consumed => /\ dispatch.default = 0
                           /\ pc # "exited"
            /\ ~consumed => /\ Len(o) = Len(layers)
                            /\ dispatch.default = 1
            /\ pc = "exited" <=> (dispatch.event = "Quit" /\ ~consumed)

\* The first of two layers consumed a Quit: the second was not offered it
\* and the loop goes on.
C20_Witness ==
    /\ Len(layers) = 2
    /\ dispatch.event = "Quit"
    /\ Len(dispatch.offered) = 1
    /\ dispatch.offered[1].result
    /\ dispatch.default = 0
    /\ pc = "event_loop"

\* ----------------------------------------------------------------- C21

\* The draw calls and the buffer swap of this iteration have been issued.
FrameDrawn == Len(frame) > 1

\* C21: in an iteration that does not leave the loop, every layer's
\* on_update is called exactly once, in layer order, after the events of the
\* iteration have all been dispatched and before the iteration's draw calls
\* and buffer swap: no on_update has been called while events are dispatched
\* or when the loop was left, all have been called once no event is pending
\* and before anything is drawn, and a drawn frame has them all.
C21_OnUpdateOncePerFrame ==
    /\ pc \in {"event_loop", "exited"} => updates = <<>>
    /\ pc = "draw" => /\ updates = layers
                      /\ pending = <<>>
                      /\ ~FrameDrawn
    /\ FrameDrawn => /\ pc = "running"
                     /\ updates = layers
                     /\ frame[Len(frame)] = "gl_swap_window"

\* An iteration with two layers has dispatched an event, called both
\* on_update and drawn its frame.
C21_Witness ==
    /\ pc = "running"
    /\ Len(layers) = 2
    /\ dispatch.event = "KeyDown"
    /\ updates = <<1, 2>>
    /\ FrameDrawn

\* ----------------------------------------------------------------- C22

\* C22: after unbind_from_slot(s) texture unit s has no texture bound and
\* the bindings of all other units are as before the call.
C22_UnbindsGivenSlot ==
    [][ call'.op = "unbind_from_slot" =>
          /\ texture_units'[input'] = NoTexture
          /\ \A u \in Units \ {input'} : texture_units'[u] = texture_units[u]
      ]_vars

\* ----------------------------------------------------------------- C23

\* C23: the first Renderer::init enables blending and sets the blend
\* function, which makes it the one configuration there ever is; every later
\* init issues no device command and changes nothing; INITIALIZED is true
\* after every init.
C23_InitConfiguresOnce ==
    [][ call'.op = "init" =>
          /\ INITIALIZED'
          /\ configurations' = 1
          /\ device'.blend
          /\ device'.blend_func = <<"SRC_ALPHA", "ONE_MINUS_SRC_ALPHA">>
          /\ ~INITIALIZED =>
                log' = <<Enable("BLEND"),
                        BlendFunc("SRC_ALPHA", "ONE_MINUS_SRC_ALPHA")>>
          /\ INITIALIZED => /\ log' = <<>>
                            /\ device' = device
      ]_vars

\* An init that was not the first: it issued nothing, after other calls
\* had changed the viewport and the clear color.
C23_Witness ==
    /\ call.op = "init"
    /\ log = <<>>
    /\ INITIALIZED
    /\ configurations = 1
    /\ device.blend
    /\ device.viewport = <<0, 0, 400, 300>>
    /\ device.clear_color = White

\* ----------------------------------------------------------------- C24

\* The byte sizes of the first n attributes of a list, added up.
RECURSIVE SizeOfFirst(_, _)
SizeOfFirst(attributes, n) ==
    IF n = 0 THEN 0
    ELSE SizeOfFirst(attributes, n - 1) +
         (CASE attributes[n] = "Float" -> 4
            [] attributes[n] = "Vec2f" -> 8
            [] attributes[n] = "Vec3f" -> 12
            [] attributes[n] = "Vec4f" -> 16)

\* C24: BufferLayout::new gives one offset per attribute, in attribute
\* order, offsets[i] being the sum of the byte sizes of the attributes before
\* attribute i (so the first is 0), and the stride is the sum of the byte
\* sizes of all attributes; the empty list gives no offsets and stride 0.
C24_OffsetsAndStride ==
    output # NoOutput =>
        /\ Len(output[1]) = Len(input)
        /\ \A i \in 1 .. Len(input) : output[1][i] = SizeOfFirst(input, i - 1)
        /\ output[2] = SizeOfFirst(input, Len(input))
        /\ Len(input) >= 1 => output[1][1] = 0
        /\ input = <<>> => output = << <<>>, 0 >>

\* The layout of a position, a UV and a color.
C24_Witness ==
    /\ input = <<"Vec3f", "Vec2f", "Vec4f">>
    /\ output = << <<0, 12, 20>>, 36 >>

\* ----------------------------------------------------------------- C25

\* C25: the index data uploaded at construction covers all
\* 6 * MAX_RECTS_IN_BATCH indices, so the 6 * next_rect indices every draw
\* of the batch asks the device to read lie inside the uploaded data.
C25_DrawnIndicesUploaded ==
    \A d \in 1 .. Len(Draws) :
        Draws[d].vertex_array = "rect_batch.vertex_array" =>
            /\ DOMAIN index_buffer = 0 .. MAX_INDICES_IN_BATCH - 1
            /\ \A k \in 0 .. Draws[d].count - 1 : k \in DOMAIN index_buffer

\* ----------------------------------------------------------------- C26

\* The slot written by the j-th add of the window.
SlotOf(j) == IF window[j].textured THEN TexturedUpTo(j) ELSE 0

\* C26: the records a draw uploads are those of the adds made since the
\* last reset (or since construction), in call order: records 4j .. 4j+3 of
\* the upload are the four the j-th add of the window (counting from 0)
\* built from its rectangle and color, and nothing beyond the last add is
\* uploaded, whatever earlier windows left in the staging array.
C26_OnlyWindowRecordsUploaded ==
    call.op = "end_batch" =>
        /\ Len(Uploads) = 1
        /\ DOMAIN Uploads[1].data = 0 .. 4 * Len(window) - 1
        /\ \A j \in 1 .. Len(window) :
              \A k \in 0 .. 3 :
                  Uploads[1].data[4 * (j - 1) + k] =
                      Corners(window[j].rect, window[j].color,
                              SlotOf(j), SlotOf(j))[k]

\* A window of one rectangle was drawn while the staging array held other
\* records, of an earlier window, after it.
C26_Witness ==
    /\ call.op = "end_batch"
    /\ frames >= 1
    /\ window = <<Added(FALSE, NoTexture, Rect200, Cyan)>>
    /\ vertices[4] # RectVertexDefault
    /\ vertices[4].color = White
    /\ DOMAIN Uploads[1].data = 0 .. 3

\* ----------------------------------------------------------------- C27

\* The adds of the window that were textured.
TexturedAdds == {j \in 1 .. Len(window) : window[j].textured}

C28_FullBatchTexturedAddHasNoEffect ==
    [][ (call'.op = "batch_textured_rect" /\ next_rect = MAX_RECTS_IN_BATCH) =>
          /\ panicked'
          /\ vertices' = vertices
          /\ next_rect' = next_rect
          /\ next_texture_slot' = next_texture_slot
          /\ texture_units' = texture_units
          /\ log' = <<>>
      ]_vars

\* A textured add was refused on a batch full of untextured rectangles, and
\* its texture is on no unit.
C28_Witness ==
    /\ panicked
    /\ call.op = "batch_textured_rect"
    /\ next_rect = MAX_RECTS_IN_BATCH
    /\ next_texture_slot = 1
    /\ \A u \in Units : texture_units[u] # call.texture

\* ----------------------------------------------------------------- C29

\* C29: Texture::with_data creates the texture if and only if the data
\* length is exactly 4 * width * height, and panics on its assertion
\* otherwise, the lengths 4 * width * height + 1, + 2 and + 3 included.
C29_AcceptsExactLengthOnly ==
    output # NoOutput =>
        (output[1] = "Texture" <=> input.len = 4 * input.width * input.height)

\* The last dispatched event is a Quit for which every layer's on_event
\* returned false.
UnhandledQuit ==
    /\ dispatch.event = "Quit"
    /\ Len(dispatch.offered) = Len(layers)
    /\ \A i \in 1 .. Len(dispatch.offered) : ~dispatch.offered[i].result

\* 'running is left exactly on an unhandled Quit, and then before on_update
\* and before the frame's draw calls and swap.
ExitsOnUnhandledQuit ==
    /\ pc = "exited" <=> UnhandledQuit
    /\ pc = "exited" => /\ updates = <<>>
                        /\ frame = <<"clear">>
                        /\ dispatch.default = 1

\* Nothing follows the exit: the events still pending stay undispatched.
NothingAfterExit ==
    pc = "exited" =>
        /\ pc' = "exited"
        /\ UNCHANGED <<pending, dispatch, updates, frame>>

\* A Quit that no layer can handle is at the head of the polled events.
QuitPolledUnhandled ==
    /\ pc = "event_loop"
    /\ layers = <<>>
    /\ pending # <<>>
    /\ Head(pending) = "Quit"

\* C30: the main loop of Application::execute is left if and only if a Quit
\* event is dispatched for which every layer's on_event returned false; it is
\* left at once, with the events still pending in that poll undispatched, with
\* no on_update call and none of that frame's draw calls or buffer swap; and a
\* Quit that no layer handles, once polled, leads to the loop being left.
C30_TerminatesExactlyOnUnhandledQuit ==
    /\ []ExitsOnUnhandledQuit
    /\ [][NothingAfterExit]_vars
    /\ (QuitPolledUnhandled ~> pc = "exited")

C30_Witness ==
    /\ pc = "exited"
    /\ UnhandledQuit
    /\ Len(layers) = MaxLayers
    /\ pending # <<>>
    /\ updates = <<>>
    /\ frame = <<"clear">>

=============================================================================
